---- MODULE Spec2Model ----
(***************************************************************************)
(* Model of src/extract_jobs.py: the heuristic extraction of job records   *)
(* from one parsed HTML page, the deduplication of the rows and the        *)
(* export performed by main.                                               *)
(*                                                                         *)
(* Strings are TLC strings, handled character by character (Len, SubSeq,   *)
(* \o), so that lower(), strip(), startswith(), the "in" operator and the  *)
(* two regular expressions are computed, not assumed.                      *)
(*                                                                         *)
(* A parsed document is the sequence of its nodes in document order        *)
(* (pre-order).  A node is a Tag (an element) or a NavigableString (tag    *)
(* "#text"); its parent is the index of the enclosing element, 0 being the *)
(* root Tag of the tree.                                                   *)
(***************************************************************************)
EXTENDS Integers, Sequences, FiniteSets, TLC

VARIABLES
    doc,          \* the parsed tree (soup, or the Tag handed to an extractor)
    pc,           \* position of the running operation
    inputExists,  \* INPUT_PATH.exists()
    artifact,     \* the file at OUTPUT_XLSX: NoFile or a written workbook
    jobs,         \* main: the list returned by extract_jobs
    path,         \* extract_jobs: which branch produced the rows
    exitCode,     \* main: the returned status
    stderr,       \* main: lines printed to sys.stderr
    stdout,       \* main: lines printed to sys.stdout
    containers,   \* result of find_job_containers
    title,        \* result of choose_title
    location,     \* result of choose_location
    url,          \* absolutize: the argument
    absolute,     \* absolutize: the value returned by the last call
    rows,         \* dedupe_jobs: the argument
    unique_rows,  \* dedupe_jobs: the value returned by the last call
    container,    \* the node handed to a field extractor
    calls         \* how many times the function under study was applied

vars == <<doc, pc, inputExists, artifact, jobs, path, exitCode, stderr, stdout,
          containers, container, title, location, url, absolute, rows, unique_rows, calls>>

-----------------------------------------------------------------------------
(* Bounds of the model.                                                    *)

MaxNodes == 4
MaxContNodes == 3
MaxTitleNodes == 5
MaxLocNodes == 3
MaxRows == 3
MaxParts == 2

-----------------------------------------------------------------------------
(* Python values.                                                          *)

\* None of an Optional[Tag]: no node index.
NoNode == -1

\* None of an Optional[str]: a value no attribute or text of the model holds.
NoneStr == "<None>"

\* x or ""
OrEmpty(x) == IF x = NoneStr THEN "" ELSE x

-----------------------------------------------------------------------------
(* str methods.                                                            *)

Chr(s, i) == SubSeq(s, i, i)

Rest(s) == SubSeq(s, 2, Len(s))

\* The characters str.strip() and the regex class \s remove.
IsSpace(c) == c \in {" ", "\t", "\n", "\r", "\f"}

LowerMap ==
    [c \in {"A", "B", "C", "D", "E", "F", "G", "H", "I", "J", "K", "L", "M",
            "N", "O", "P", "Q", "R", "S", "T", "U", "V", "W", "X", "Y", "Z"} |->
        CASE c = "A" -> "a" [] c = "B" -> "b" [] c = "C" -> "c" [] c = "D" -> "d"
          [] c = "E" -> "e" [] c = "F" -> "f" [] c = "G" -> "g" [] c = "H" -> "h"
          [] c = "I" -> "i" [] c = "J" -> "j" [] c = "K" -> "k" [] c = "L" -> "l"
          [] c = "M" -> "m" [] c = "N" -> "n" [] c = "O" -> "o" [] c = "P" -> "p"
          [] c = "Q" -> "q" [] c = "R" -> "r" [] c = "S" -> "s" [] c = "T" -> "t"
          [] c = "U" -> "u" [] c = "V" -> "v" [] c = "W" -> "w" [] c = "X" -> "x"
          [] c = "Y" -> "y" [] c = "Z" -> "z"]

LowerChar(c) == IF c \in DOMAIN LowerMap THEN LowerMap[c] ELSE c

RECURSIVE Lower(_)
Lower(s) == IF s = "" THEN "" ELSE LowerChar(Chr(s, 1)) \o Lower(Rest(s))

RECURSIVE LStrip(_)
LStrip(s) == IF s # "" /\ IsSpace(Chr(s, 1)) THEN LStrip(Rest(s)) ELSE s

RECURSIVE RStrip(_)
RStrip(s) ==
    IF s # "" /\ IsSpace(Chr(s, Len(s))) THEN RStrip(SubSeq(s, 1, Len(s) - 1)) ELSE s

Strip(s) == RStrip(LStrip(s))

StartsWith(s, p) == Len(s) >= Len(p) /\ SubSeq(s, 1, Len(p)) = p

\* sub in s
Contains(sub, s) ==
    \E i \in 1..(Len(s) - Len(sub) + 1) : SubSeq(s, i, i + Len(sub) - 1) = sub

\* url.lstrip('/')
RECURSIVE LStripSlash(_)
LStripSlash(s) == IF s # "" /\ Chr(s, 1) = "/" THEN LStripSlash(Rest(s)) ELSE s

\* " ".join(parts)
RECURSIVE JoinSp(_)
JoinSp(parts) ==
    IF parts = <<>> THEN ""
    ELSE IF Len(parts) = 1 THEN parts[1]
    ELSE parts[1] \o " " \o JoinSp(Tail(parts))

\* re.sub(r"\s+", " ", s)
RECURSIVE CollapseWs(_)
CollapseWs(s) ==
    IF s = "" THEN ""
    ELSE IF IsSpace(Chr(s, 1)) THEN " " \o CollapseWs(LStrip(s))
    ELSE Chr(s, 1) \o CollapseWs(Rest(s))

-----------------------------------------------------------------------------
(* Sequences of node indices.                                              *)

Range(s) == {s[i] : i \in 1..Len(s)}

Min(S) == CHOOSE m \in S : \A x \in S : m <= x

\* The members of a set of indices in increasing (document) order.
RECURSIVE InOrder(_)
InOrder(S) == IF S = {} THEN <<>> ELSE <<Min(S)>> \o InOrder(S \ {Min(S)})

First(S) == IF S = {} THEN NoNode ELSE Min(S)

-----------------------------------------------------------------------------
(* The parsed tree.                                                        *)

\* Node templates: an element, an element with an href, a string.
Element(t, c) == [tag |-> t, cls |-> c, hasHref |-> FALSE, href |-> "", text |-> ""]

Anchor(h) == [tag |-> "a", cls |-> <<>>, hasHref |-> TRUE, href |-> h, text |-> ""]

String(s) == [tag |-> "#text", cls |-> <<>>, hasHref |-> FALSE, href |-> "", text |-> s]

Place(t, p) ==
    [tag |-> t.tag, cls |-> t.cls, hasHref |-> t.hasHref, href |-> t.href,
     text |-> t.text, parent |-> p]

Headings == <<"h1", "h2", "h3", "h4">>

\* isinstance(node, Tag)
IsTag(d, i) == i = 0 \/ d[i].tag # "#text"

\* n is a proper ancestor of i.
RECURSIVE Anc(_, _, _)
Anc(d, n, i) == i > 0 /\ (d[i].parent = n \/ Anc(d, n, d[i].parent))

\* The descendants of n; in document order they follow n.
Desc(d, n) == {i \in (n + 1)..Len(d) : Anc(d, n, i)}

\* What an HTML parser can build by appending template t under p: p is an
\* element still open (on the path from the root to the last node), an "a"
\* lies in no "a" and a heading in no heading.
CanAttach(d, t, p) ==
    /\ IsTag(d, p)
    /\ p = 0 \/ p = Len(d) \/ Anc(d, p, Len(d))
    /\ t.tag = "a" =>
          \A q \in 1..Len(d) : (q = p \/ Anc(d, q, p)) => d[q].tag # "a"
    /\ t.tag \in Range(Headings) =>
          \A q \in 1..Len(d) : (q = p \/ Anc(d, q, p)) => d[q].tag \notin Range(Headings)

\* The parser appends one more node over the templates P to the tree, under an
\* open element of index at least top, while the tree has fewer than max nodes.
ParseNode(P, max, top) ==
    /\ Len(doc) < max
    /\ \E x \in {y \in P \X (top..Len(doc)) : CanAttach(doc, y[1], y[2])} :
          doc' = Append(doc, Place(x[1], x[2]))

\* node.find_all(tag) / node.find_all(True), in document order.
find_all(d, n, tag) == InOrder({i \in Desc(d, n) : d[i].tag = tag})

find_all_tags(d, n) == InOrder({i \in Desc(d, n) : IsTag(d, i)})

\* node.find_all(tag, href=True)
find_all_href(d, n, tag) == InOrder({i \in Desc(d, n) : d[i].tag = tag /\ d[i].hasHref})

\* node.find(tag) / node.find(tag, href=True): the first one, or None.
find(d, n, tag) == First({i \in Desc(d, n) : d[i].tag = tag})

find_href(d, n, tag) == First({i \in Desc(d, n) : d[i].tag = tag /\ d[i].hasHref})

\* node.get_text(" ", strip=True): the strings below the node, each stripped,
\* the empty ones dropped, joined by one space.
RECURSIVE StrippedStrings(_, _)
StrippedStrings(d, idx) ==
    IF idx = <<>> THEN <<>>
    ELSE LET s == Strip(d[Head(idx)].text)
         IN (IF s = "" THEN <<>> ELSE <<s>>) \o StrippedStrings(d, Tail(idx))

get_text(d, n) == JoinSp(StrippedStrings(d, find_all(d, n, "#text")))

extract_visible_text(d, n) == CollapseWs(get_text(d, n))

\* A variant that forgets .lower(): the class names are compared as written.
has_class_like_CaseSensitive(d, n, substrings) ==
    LET classes == IF n = 0 THEN <<>> ELSE d[n].cls
        class_attr == JoinSp(classes)
    IN \E k \in 1..Len(substrings) : Contains(substrings[k], class_attr)

has_class_like(d, n, substrings) ==
    LET classes == IF n = 0 THEN <<>> ELSE d[n].cls
        class_attr == Lower(JoinSp(classes))
    IN \E k \in 1..Len(substrings) : Contains(substrings[k], class_attr)

-----------------------------------------------------------------------------
(* find_job_containers                                                     *)

ContainerTags == <<"article", "li", "div", "section">>

ContainerHints == <<"job", "listing", "result", "card", "opening", "vacancy", "position">>

\* The candidates appended while scanning one tag name.
CandidatesOf(d, tag_name) ==
    SelectSeq(find_all(d, 0, tag_name),
              LAMBDA node : /\ has_class_like(d, node, ContainerHints)
                            /\ find(d, node, "a") # NoNode)

\* "Deduplicate by id": the first occurrence of each node.
RECURSIVE Uniq(_, _)
Uniq(candidates, seen) ==
    IF candidates = <<>> THEN <<>>
    ELSE IF Head(candidates) \in seen THEN Uniq(Tail(candidates), seen)
    ELSE <<Head(candidates)>> \o Uniq(Tail(candidates), seen \cup {Head(candidates)})

RECURSIVE ScanTags(_, _)
ScanTags(d, tags) ==
    IF tags = <<>> THEN <<>>
    ELSE CandidatesOf(d, Head(tags)) \o ScanTags(d, Tail(tags))

find_job_containers(d) == Uniq(ScanTags(d, ContainerTags), {})

-----------------------------------------------------------------------------
(* Regular expressions of the field extractors.                            *)

\* s[i], and the empty string outside the string.
At(s, i) == IF 1 <= i /\ i <= Len(s) THEN SubSeq(s, i, i) ELSE ""

\* s[a..b] cut to the string.
Sub(s, a, b) ==
    LET lo == IF a < 1 THEN 1 ELSE a
        hi == IF b > Len(s) THEN Len(s) ELSE b
    IN IF lo > hi THEN "" ELSE SubSeq(s, lo, hi)

Digits == {"0", "1", "2", "3", "4", "5", "6", "7", "8", "9"}

\* The class \w.
IsWordChar(c) ==
    c \in DOMAIN LowerMap \cup {LowerMap[x] : x \in DOMAIN LowerMap} \cup Digits \cup {"_"}

\* \b in front of a word character at p.
WordStart(s, p) == p = 1 \/ ~IsWordChar(At(s, p - 1))

\* The position after a greedy \s* at q.
RECURSIVE SkipWs(_, _)
SkipWs(s, q) == IF q <= Len(s) /\ IsSpace(At(s, q)) THEN SkipWs(s, q + 1) ELSE q

\* The position after a greedy [0-9]* at q.
RECURSIVE SkipDigits(_, _)
SkipDigits(s, q) == IF q <= Len(s) /\ At(s, q) \in Digits THEN SkipDigits(s, q + 1) ELSE q

\* The position after a greedy [^|\n]* at q.
RECURSIVE SkipValue(_, _)
SkipValue(s, q) ==
    IF q <= Len(s) /\ At(s, q) \notin {"|", "\n"} THEN SkipValue(s, q + 1) ELSE q

\* The class [:|-].
Separators == {":", "|", "-"}

\* The length of the keyword of (Location|City) matched at p under re.I, or 0.
LocationKeywordAt(s, p) ==
    IF Lower(Sub(s, p, p + 7)) = "location" THEN 8
    ELSE IF Lower(Sub(s, p, p + 3)) = "city" THEN 4
    ELSE 0

\* A variant with [:|-]? in place of [:|-]: without a separator the group starts
\* at the first character after the keyword's whitespace.
LocationMatchAtOptionalSep(s, p) ==
    LET k == LocationKeywordAt(s, p)
        q == SkipWs(s, p + k)
        g == IF At(s, q) \in Separators /\ SkipWs(s, q + 1) <= Len(s)
                  /\ At(s, SkipWs(s, q + 1)) \notin {"|", "\n"}
             THEN SkipWs(s, q + 1)
             ELSE q
    IN IF k > 0 /\ WordStart(s, p) /\ g <= Len(s) /\ At(s, g) \notin {"|", "\n"}
       THEN Sub(s, g, SkipValue(s, g) - 1)
       ELSE NoneStr

\* Group 2 of \b(Location|City)\s*[:|-]\s*([^|\n]+) matched at p, or None.
\* The separator is not optional.  The second \s* gives whitespace back when
\* nothing else is left for the group.
LocationMatchAt(s, p) ==
    LET k == LocationKeywordAt(s, p)
        q == SkipWs(s, p + k)
        r == SkipWs(s, q + 1)
        starts == {g \in (q + 1)..r : g <= Len(s) /\ At(s, g) \notin {"|", "\n"}}
        g == CHOOSE x \in starts : \A y \in starts : y <= x
    IN IF k > 0 /\ WordStart(s, p) /\ At(s, q) \in Separators /\ starts # {}
       THEN Sub(s, g, SkipValue(s, g) - 1)
       ELSE NoneStr

\* re.search: the match at the leftmost position that has one.
LocationSearch(s) ==
    LET at == {p \in 1..Len(s) : LocationMatchAt(s, p) # NoneStr}
    IN IF at = {} THEN NoneStr ELSE LocationMatchAt(s, Min(at))

\* \s*[:|-]?\s*([0-9]+\+?\s*-?\s*[0-9]*\s*years?) matched from a: group 2, or None.
ExperienceTail(s, a) ==
    LET q == SkipWs(s, a)
        g == SkipWs(s, IF At(s, q) \in Separators THEN q + 1 ELSE q)
        d1 == SkipDigits(s, g)
        w1 == SkipWs(s, IF At(s, d1) = "+" THEN d1 + 1 ELSE d1)
        w2 == SkipWs(s, IF At(s, w1) = "-" THEN w1 + 1 ELSE w1)
        w3 == SkipWs(s, SkipDigits(s, w2))
        e == IF Lower(At(s, w3 + 4)) = "s" THEN w3 + 4 ELSE w3 + 3
    IN IF d1 > g /\ Lower(Sub(s, w3, w3 + 3)) = "year" /\ w3 + 3 <= Len(s)
       THEN Sub(s, g, e)
       ELSE NoneStr

\* \b(Exp|Experience)... matched at p: "Exp" is tried first, then "Experience".
ExperienceMatchAt(s, p) ==
    IF ~WordStart(s, p) \/ Lower(Sub(s, p, p + 2)) # "exp" THEN NoneStr
    ELSE IF ExperienceTail(s, p + 3) # NoneStr THEN ExperienceTail(s, p + 3)
    ELSE IF Lower(Sub(s, p, p + 9)) = "experience" THEN ExperienceTail(s, p + 10)
    ELSE NoneStr

ExperienceSearch(s) ==
    LET at == {p \in 1..Len(s) : ExperienceMatchAt(s, p) # NoneStr}
    IN IF at = {} THEN NoneStr ELSE ExperienceMatchAt(s, Min(at))

-----------------------------------------------------------------------------
(* Field extractors.                                                       *)

\* The href test of title rule 1, on the lowercased href.
IsTitleHref(href) ==
    \/ Contains("/j/", href)
    \/ Contains("iimjobs.com", href) /\ (Contains("/j/", href) \/ Contains("/job", href))

MinTitleLen == 5

MinFieldLen == 2

\* A variant whose rule 2 walks every heading of a level (find_all) and not
\* only the first one (find).
choose_title_AnyHeading(d, node) ==
    LET rule1 == {a \in Range(find_all_href(d, node, "a")) :
                     /\ IsTitleHref(Lower(d[a].href))
                     /\ Len(extract_visible_text(d, a)) >= MinTitleLen}
        long(h) == {x \in Range(find_all(d, node, Headings[h])) :
                       Len(extract_visible_text(d, x)) >= MinTitleLen}
        rule2 == {h \in 1..Len(Headings) : long(h) # {}}
        rule3 == {a \in Range(find_all(d, node, "a")) :
                     Len(extract_visible_text(d, a)) >= MinTitleLen}
    IN IF rule1 # {} THEN Min(rule1)
       ELSE IF rule2 # {} THEN Min(long(Min(rule2)))
       ELSE IF rule3 # {} THEN Min(rule3)
       ELSE NoNode

choose_title(d, node) ==
    LET rule1 == {a \in Range(find_all_href(d, node, "a")) :
                     /\ IsTitleHref(Lower(d[a].href))
                     /\ Len(extract_visible_text(d, a)) >= MinTitleLen}
        rule2 == {h \in 1..Len(Headings) :
                     LET hnode == find(d, node, Headings[h])
                     IN hnode # NoNode /\ Len(extract_visible_text(d, hnode)) >= MinTitleLen}
        rule3 == {a \in Range(find_all(d, node, "a")) :
                     Len(extract_visible_text(d, a)) >= MinTitleLen}
    IN IF rule1 # {} THEN Min(rule1)
       ELSE IF rule2 # {} THEN find(d, node, Headings[Min(rule2)])
       ELSE IF rule3 # {} THEN Min(rule3)
       ELSE NoNode

\* The text of the first descendant whose classes hint at the field and whose
\* text has at least minLen characters, or None.
FirstClassText(d, node, hints, minLen) ==
    LET els == {el \in Range(find_all_tags(d, node)) :
                   /\ has_class_like(d, el, hints)
                   /\ Len(extract_visible_text(d, el)) >= minLen}
    IN IF els = {} THEN NoneStr ELSE extract_visible_text(d, Min(els))

choose_company(d, node) ==
    FirstClassText(d, node, <<"company", "employer", "org", "firm", "recruiter">>, MinFieldLen)

choose_location(d, node) ==
    LET byClass == FirstClassText(d, node, <<"location", "loc", "city", "place">>, MinFieldLen)
        m == LocationSearch(extract_visible_text(d, node))
    IN IF byClass # NoneStr THEN byClass
       ELSE IF m # NoneStr THEN Strip(m)
       ELSE NoneStr

choose_experience(d, node) ==
    LET m == ExperienceSearch(extract_visible_text(d, node))
    IN IF m # NoneStr THEN Strip(m)
       ELSE FirstClassText(d, node, <<"exp", "experience">>, 1)

choose_link(d, title_node) ==
    LET inside == find_href(d, title_node, "a")
        parent == d[title_node].parent
        beside == find_href(d, parent, "a")
    IN IF d[title_node].tag = "a" /\ d[title_node].hasHref THEN d[title_node].href
       ELSE IF inside # NoNode THEN d[inside].href
       ELSE IF beside # NoNode THEN d[beside].href
       ELSE NoneStr

-----------------------------------------------------------------------------
(* absolutize                                                              *)

\* A variant that takes only "http://" for an absolute URL.
absolutize_HttpOnly(u) ==
    IF u = "" THEN u
    ELSE IF StartsWith(u, "http://") THEN u
    ELSE IF StartsWith(u, "//") THEN "https:" \o u
    ELSE IF StartsWith(u, "/") THEN "https://www.iimjobs.com" \o u
    ELSE "https://www.iimjobs.com/" \o LStripSlash(u)

absolutize(u) ==
    IF u = "" THEN u
    ELSE IF StartsWith(u, "http://") \/ StartsWith(u, "https://") THEN u
    ELSE IF StartsWith(u, "//") THEN "https:" \o u
    ELSE IF StartsWith(u, "/") THEN "https://www.iimjobs.com" \o u
    ELSE "https://www.iimjobs.com/" \o LStripSlash(u)

-----------------------------------------------------------------------------
(* dedupe_jobs                                                             *)

\* A variant whose key also holds the company.
RowKeyWithCompany(r) == <<Strip(Lower(r.Title)), Strip(Lower(r.Link)), r.Company>>

RowKey(r) == <<Strip(Lower(r.Title)), Strip(Lower(r.Link))>>

RECURSIVE DedupeFrom(_, _)
DedupeFrom(rs, seen) ==
    IF rs = <<>> THEN <<>>
    ELSE IF RowKey(Head(rs)) \in seen THEN DedupeFrom(Tail(rs), seen)
    ELSE <<Head(rs)>> \o DedupeFrom(Tail(rs), seen \cup {RowKey(Head(rs))})

\* A variant that removes the duplicates from the list it is iterating over
\* (rows.remove(r) inside the loop), so that the row after a removed one is
\* never looked at.
RemoveFirst(rs, r) ==
    LET i == Min({k \in 1..Len(rs) : rs[k] = r})
    IN SubSeq(rs, 1, i - 1) \o SubSeq(rs, i + 1, Len(rs))

RECURSIVE RemoveWhileIterating(_, _, _)
RemoveWhileIterating(rs, i, seen) ==
    IF i > Len(rs) THEN rs
    ELSE IF RowKey(rs[i]) \in seen
         THEN RemoveWhileIterating(RemoveFirst(rs, rs[i]), i + 1, seen)
         ELSE RemoveWhileIterating(rs, i + 1, seen \cup {RowKey(rs[i])})

dedupe_jobs_InPlace(rs) == RemoveWhileIterating(rs, 1, {})

dedupe_jobs(rs) == DedupeFrom(rs, {})

-----------------------------------------------------------------------------
(* extract_jobs                                                            *)

\* A variant of the fallback scan that keeps every anchor.
FallbackKeepsAll(href) == TRUE

\* The fallback scan keeps an anchor whose stripped href is not empty and
\* points at the site.
FallbackKeeps(href) ==
    /\ href # ""
    /\ \/ Contains("iimjobs.com", Lower(href))
       \/ StartsWith(Lower(href), "/j/")
       \/ Contains("/job", Lower(href))

RECURSIVE FallbackRows(_, _)
FallbackRows(d, anchors) ==
    IF anchors = <<>> THEN <<>>
    ELSE LET a == Head(anchors)
             href == Strip(d[a].href)
         IN (IF FallbackKeeps(href)
             THEN <<[Title |-> extract_visible_text(d, a), Company |-> "",
                     Location |-> "", Experience |-> "", Link |-> absolutize(href)]>>
             ELSE <<>>) \o FallbackRows(d, Tail(anchors))

RECURSIVE ContainerRows(_, _)
ContainerRows(d, nodes) ==
    IF nodes = <<>> THEN <<>>
    ELSE LET node == Head(nodes)
             title_node == choose_title(d, node)
             title_text == extract_visible_text(d, title_node)
             link == OrEmpty(choose_link(d, title_node))
         IN (IF title_node = NoNode \/ (title_text = "" /\ link = "") THEN <<>>
             ELSE <<[Title |-> title_text,
                     Company |-> OrEmpty(choose_company(d, node)),
                     Location |-> OrEmpty(choose_location(d, node)),
                     Experience |-> OrEmpty(choose_experience(d, node)),
                     Link |-> IF link # "" THEN absolutize(link) ELSE ""]>>)
            \o ContainerRows(d, Tail(nodes))

\* A variant that falls back to the anchor scan when the containers gave no
\* row, and not only when there is no container.
extract_jobs_FallbackWhenEmpty(d) ==
    LET found == find_job_containers(d)
        results == ContainerRows(d, found)
    IN IF results = <<>>
       THEN [path |-> "fallback",
             rows |-> dedupe_jobs(FallbackRows(d, find_all_href(d, 0, "a")))]
       ELSE [path |-> "containers", rows |-> dedupe_jobs(results)]

\* The branch taken and the rows returned.
extract_jobs(d) ==
    LET found == find_job_containers(d)
    IN IF found = <<>>
       THEN [path |-> "fallback",
             rows |-> dedupe_jobs(FallbackRows(d, find_all_href(d, 0, "a")))]
       ELSE [path |-> "containers", rows |-> dedupe_jobs(ContainerRows(d, found))]

-----------------------------------------------------------------------------
(* Values of the variables an operation does not use.                      *)

NoFile == [sheet |-> "", header |-> <<>>, data |-> <<>>, written |-> FALSE]

MainIdle ==
    /\ inputExists = FALSE
    /\ artifact = NoFile
    /\ jobs = <<>>
    /\ path = "none"
    /\ exitCode = <<>>
    /\ stderr = <<>>
    /\ stdout = <<>>

ExtractorsIdle ==
    /\ containers = <<>>
    /\ container = NoNode
    /\ title = NoNode
    /\ location = NoneStr

FunctionsIdle ==
    /\ url = ""
    /\ absolute = ""
    /\ rows = <<>>
    /\ unique_rows = <<>>

-----------------------------------------------------------------------------
(* The Container Locator applied to a parsed page.                         *)

ContainerClasses == {<<"JobCard">>, <<"jo", "b">>}

ContainerTemplates ==
    {Element(t, c) : t \in Range(ContainerTags), c \in ContainerClasses}
        \cup {Element("div", <<>>), Element("span", <<"Top-Result">>), Anchor("/j/1")}

InitContainers ==
    /\ doc = <<>>
    /\ pc = "parsed"
    /\ calls = 0
    /\ MainIdle /\ ExtractorsIdle /\ FunctionsIdle

\* soup = BeautifulSoup(html, "lxml"), node by node
ParsePage ==
    /\ pc = "parsed"
    /\ ParseNode(ContainerTemplates, MaxContNodes, 0)
    /\ UNCHANGED <<pc, inputExists, artifact, jobs, path, exitCode, stderr, stdout,
                   containers, container, title, location, url, absolute, rows,
                   unique_rows, calls>>

FindJobContainers ==
    /\ pc = "parsed"
    /\ containers' = find_job_containers(doc)
    /\ pc' = "located"
    /\ calls' = calls + 1
    /\ UNCHANGED <<doc, inputExists, artifact, jobs, path, exitCode, stderr, stdout,
                   container, title, location, url, absolute, rows, unique_rows>>

NextContainers == ParsePage \/ FindJobContainers

SpecContainers == InitContainers /\ [][NextContainers]_vars

-----------------------------------------------------------------------------
(* The Title Extractor applied to a container of a parsed page.            *)

JobCard == Element("div", <<"job">>)

TitleTemplates ==
    {Element("h2", <<>>), Element("h3", <<>>), Anchor("/j/1"),
     String("New"), String("Senior Manager")}

InitTitle ==
    /\ doc = <<Place(JobCard, 0)>>
    /\ pc = "parsed"
    /\ calls = 0
    /\ MainIdle /\ ExtractorsIdle /\ FunctionsIdle

\* The parser fills the job card.
ParseTitleCard ==
    /\ pc = "parsed"
    /\ ParseNode(TitleTemplates, MaxTitleNodes + 1, 1)
    /\ UNCHANGED <<pc, inputExists, artifact, jobs, path, exitCode, stderr, stdout,
                   containers, container, title, location, url, absolute, rows,
                   unique_rows, calls>>

\* title_node = choose_title(node), for a node of find_job_containers(soup)
ChooseTitle ==
    /\ pc = "parsed"
    /\ \E n \in Range(find_job_containers(doc)) :
          /\ container' = n
          /\ title' = choose_title(doc, n)
    /\ pc' = "chosen"
    /\ calls' = calls + 1
    /\ UNCHANGED <<doc, inputExists, artifact, jobs, path, exitCode, stderr, stdout,
                   containers, location, url, absolute, rows, unique_rows>>

NextTitle == ParseTitleCard \/ ChooseTitle

SpecTitle == InitTitle /\ [][NextTitle]_vars

-----------------------------------------------------------------------------
(* The Location Extractor applied to a container of a parsed page.         *)

LocationTemplates ==
    {Element("span", <<"job-location">>), Anchor("/j/1"),
     String("M"), String("Location Mumbai"), String("City: Pune | Full time"),
     String("Relocation - Goa")}

InitLocation ==
    /\ doc = <<Place(JobCard, 0)>>
    /\ pc = "parsed"
    /\ calls = 0
    /\ MainIdle /\ ExtractorsIdle /\ FunctionsIdle

\* The parser fills the job card.
ParseLocationCard ==
    /\ pc = "parsed"
    /\ ParseNode(LocationTemplates, MaxLocNodes + 1, 1)
    /\ UNCHANGED <<pc, inputExists, artifact, jobs, path, exitCode, stderr, stdout,
                   containers, container, title, location, url, absolute, rows,
                   unique_rows, calls>>

\* location = choose_location(node), for a node of find_job_containers(soup)
ChooseLocation ==
    /\ pc = "parsed"
    /\ \E n \in Range(find_job_containers(doc)) :
          /\ container' = n
          /\ location' = choose_location(doc, n)
    /\ pc' = "chosen"
    /\ calls' = calls + 1
    /\ UNCHANGED <<doc, inputExists, artifact, jobs, path, exitCode, stderr, stdout,
                   containers, title, url, absolute, rows, unique_rows>>

NextLocation == ParseLocationCard \/ ChooseLocation

SpecLocation == InitLocation /\ [][NextLocation]_vars

-----------------------------------------------------------------------------
(* absolutize applied to a URL, and again to its own result.               *)

UrlParts == {"http://", "https://", "HTTP://", "//", "/", "j/1", "www.iimjobs.com", " "}

RECURSIVE Concats(_, _)
Concats(parts, n) ==
    IF n = 0 THEN {""} ELSE {p \o u : p \in parts, u \in Concats(parts, n - 1)}

InitAbsolutize ==
    /\ url \in UNION {Concats(UrlParts, n) : n \in 0..MaxParts}
    /\ absolute = ""
    /\ rows = <<>>
    /\ unique_rows = <<>>
    /\ doc = <<>>
    /\ pc = "call"
    /\ calls = 0
    /\ MainIdle /\ ExtractorsIdle

Absolutize ==
    /\ pc = "call"
    /\ absolute' = absolutize(IF calls = 0 THEN url ELSE absolute)
    /\ calls' = calls + 1
    /\ pc' = IF calls = 0 THEN "call" ELSE "done"
    /\ UNCHANGED <<doc, inputExists, artifact, jobs, path, exitCode, stderr, stdout,
                   containers, container, title, location, url, rows, unique_rows>>

NextAbsolutize == Absolutize

SpecAbsolutize == InitAbsolutize /\ [][NextAbsolutize]_vars

-----------------------------------------------------------------------------
(* dedupe_jobs applied to a list of rows, and again to its own result.     *)

Row(t, c, l) == [Title |-> t, Company |-> c, Location |-> "", Experience |-> "", Link |-> l]

RowTemplates ==
    {Row(t, c, l) : t \in {"Analyst", " analyst", "Manager"},
                    c \in {"Acme", "Zeta"},
                    l \in {"https://x.co/j/1", "HTTPS://X.CO/J/1 "}}

RECURSIVE RowLists(_)
RowLists(n) ==
    IF n = 0 THEN {<<>>} ELSE {Append(rs, r) : rs \in RowLists(n - 1), r \in RowTemplates}

InitDedupe ==
    /\ rows \in UNION {RowLists(n) : n \in 0..MaxRows}
    /\ unique_rows = <<>>
    /\ url = ""
    /\ absolute = ""
    /\ doc = <<>>
    /\ pc = "call"
    /\ calls = 0
    /\ MainIdle /\ ExtractorsIdle

Dedupe ==
    /\ pc = "call"
    /\ unique_rows' = dedupe_jobs(IF calls = 0 THEN rows ELSE unique_rows)
    /\ calls' = calls + 1
    /\ pc' = IF calls = 0 THEN "call" ELSE "done"
    /\ UNCHANGED <<doc, inputExists, artifact, jobs, path, exitCode, stderr, stdout,
                   containers, container, title, location, url, absolute, rows>>

NextDedupe == Dedupe

SpecDedupe == InitDedupe /\ [][NextDedupe]_vars

-----------------------------------------------------------------------------
(* main: the run of the script on one saved page.                          *)

Columns == <<"Title", "Company", "Location", "Experience", "Link">>

\* pd.DataFrame(jobs, columns=Columns): one line of cells per record.
DataFrame(js) == [i \in 1..Len(js) |-> [c \in 1..Len(Columns) |-> js[i][Columns[c]]]]

\* df.to_excel(writer, index=False, sheet_name="Jobs")
Workbook(df) == [sheet |-> "Jobs", header |-> Columns, data |-> df, written |-> TRUE]

\* A workbook left at OUTPUT_XLSX by an earlier run.
StaleFile ==
    [sheet |-> "Jobs", header |-> Columns,
     data |-> <<<<"Old Listing", "", "", "", "https://www.iimjobs.com/j/0">>>>,
     written |-> FALSE]

PageTemplates ==
    {Element("div", <<"job">>), Anchor("/j/1"), Anchor(""),
     String("Go"), String("Senior Manager"), String("City: Pune | Exp: 3-5 years")}

Init ==
    /\ inputExists \in BOOLEAN
    /\ doc = <<>>
    /\ artifact \in {NoFile, StaleFile}
    /\ pc = "start"
    /\ jobs = <<>>
    /\ path = "none"
    /\ exitCode = <<>>
    /\ stderr = <<>>
    /\ stdout = <<>>
    /\ calls = 0
    /\ ExtractorsIdle /\ FunctionsIdle

\* The page saved at INPUT_PATH before the script runs, as its parse tree.
SavePage ==
    /\ pc = "start"
    /\ inputExists
    /\ ParseNode(PageTemplates, MaxNodes, 0)
    /\ UNCHANGED <<pc, inputExists, artifact, jobs, path, exitCode, stderr, stdout,
                   containers, container, title, location, url, absolute, rows,
                   unique_rows, calls>>

\* A variant that prints the diagnostic and goes on without returning.
MainMissingInputNoReturn ==
    /\ pc = "start"
    /\ ~inputExists
    /\ stderr' = Append(stderr, "Input HTML not found")
    /\ jobs' = extract_jobs(doc).rows
    /\ path' = extract_jobs(doc).path
    /\ calls' = calls + 1
    /\ pc' = "extracted"
    /\ UNCHANGED <<doc, inputExists, artifact, exitCode, stdout,
                   containers, container, title, location, url, absolute, rows, unique_rows>>

\* if not INPUT_PATH.exists(): print(..., file=sys.stderr); return 2
MainMissingInput ==
    /\ pc = "start"
    /\ ~inputExists
    /\ stderr' = Append(stderr, "Input HTML not found")
    /\ exitCode' = <<2>>
    /\ pc' = "done"
    /\ UNCHANGED <<doc, inputExists, artifact, jobs, path, stdout, calls,
                   containers, container, title, location, url, absolute, rows, unique_rows>>

\* jobs = extract_jobs(INPUT_PATH)
MainExtract ==
    /\ pc = "start"
    /\ inputExists
    /\ jobs' = extract_jobs(doc).rows
    /\ path' = extract_jobs(doc).path
    /\ calls' = calls + 1
    /\ pc' = "extracted"
    /\ UNCHANGED <<doc, inputExists, artifact, exitCode, stderr, stdout,
                   containers, container, title, location, url, absolute, rows, unique_rows>>

\* A variant that returns without writing the workbook when there is no job.
MainExportSkipsEmpty ==
    /\ pc = "extracted"
    /\ LET df == IF jobs = <<>> THEN <<>> ELSE DataFrame(jobs)
       IN /\ artifact' = IF jobs = <<>> THEN artifact ELSE Workbook(df)
          /\ stdout' = stdout
                \o (IF jobs = <<>> THEN <<<<"No jobs found">>>> ELSE <<>>)
                \o <<<<"Wrote", Len(df), "rows">>>>
    /\ exitCode' = <<0>>
    /\ pc' = "done"
    /\ UNCHANGED <<doc, inputExists, jobs, path, stderr, calls,
                   containers, container, title, location, url, absolute, rows, unique_rows>>

\* The DataFrame, the workbook, the summary line and return 0.
MainExport ==
    /\ pc = "extracted"
    /\ LET df == IF jobs = <<>> THEN <<>> ELSE DataFrame(jobs)
       IN /\ artifact' = Workbook(df)
          /\ stdout' = stdout
                \o (IF jobs = <<>> THEN <<<<"No jobs found">>>> ELSE <<>>)
                \o <<<<"Wrote", Len(df), "rows">>>>
    /\ exitCode' = <<0>>
    /\ pc' = "done"
    /\ UNCHANGED <<doc, inputExists, jobs, path, stderr, calls,
                   containers, container, title, location, url, absolute, rows, unique_rows>>

Next == SavePage \/ MainMissingInput \/ MainExtract \/ MainExport

Spec == Init /\ [][Next]_vars

-----------------------------------------------------------------------------
(* Properties of main and extract_jobs, checked under Spec.                *)

Extracted == calls > 0 /\ pc \in {"extracted", "done"}

\* C1: every record returned by extract_jobs, by the container path or by the
\* fallback anchor scan, has a non-empty Title or a non-empty Link.
C1_TitleOrLink ==
    Extracted => \A i \in 1..Len(jobs) : jobs[i].Title # "" \/ jobs[i].Link # ""

\* The fallback scan returned a record whose Title is empty: its Link is not.
C1_Witness ==
    /\ Extracted
    /\ path = "fallback"
    /\ \E i \in 1..Len(jobs) : jobs[i].Title = "" /\ jobs[i].Link # ""

NoDuplicateKeys(rs) ==
    \A i, j \in 1..Len(rs) :
        i < j => <<Lower(Strip(rs[i].Title)), Lower(Strip(rs[i].Link))>>
                    # <<Lower(Strip(rs[j].Title)), Lower(Strip(rs[j].Link))>>

\* The containers of the page whose title rule finds a title element.
TitledContainers(d) ==
    {c \in Range(find_job_containers(d)) : choose_title(d, c) # NoNode}

\* C3: the anchor scan runs only when find_job_containers returns nothing.  With
\* at least one container every record comes from a container (its Title is
\* the text of the title element of one), so that the result is empty when
\* every container lacks a title element; without containers the fallback path
\* is taken; in both paths no two returned rows share a key.
C3_FallbackOnlyWithoutContainers ==
    Extracted =>
        /\ find_job_containers(doc) # <<>> =>
              /\ path = "containers"
              /\ \A i \in 1..Len(jobs) :
                    \E c \in TitledContainers(doc) :
                        jobs[i].Title = extract_visible_text(doc, choose_title(doc, c))
        /\ find_job_containers(doc) = <<>> => path = "fallback"
        /\ NoDuplicateKeys(jobs)

\* A container was found, none has a title element, the result is empty and
\* the anchor scan of the same page would have produced a record.
C3_Witness ==
    /\ Extracted
    /\ find_job_containers(doc) # <<>>
    /\ TitledContainers(doc) = {}
    /\ jobs = <<>>
    /\ FallbackRows(doc, find_all_href(doc, 0, "a")) # <<>>

\* C6: when the input path does not exist main returns 2 after a diagnostic on
\* the error stream, extract_jobs is never called and the output file is
\* neither created nor modified.
C6_MissingInput ==
    ~inputExists =>
        /\ pc \in {"start", "done"}
        /\ calls = 0
        /\ jobs = <<>>
        /\ artifact \in {NoFile, StaleFile}
        /\ stdout = <<>>
        /\ pc = "done" => exitCode = <<2>> /\ Len(stderr) = 1

\* main has returned for a missing input, an earlier workbook being in place.
C6_Witness ==
    /\ ~inputExists
    /\ pc = "done"
    /\ exitCode = <<2>>
    /\ artifact = StaleFile

\* C7: when the input exists main writes the table with the fixed header and
\* one data row per record of extract_jobs, in the same order, and returns 0;
\* with zero records the table holds the header and no data row.
C7_HeaderAndRows ==
    /\ pc = "extracted" => ENABLED MainExport
    /\ (pc = "done" /\ inputExists) =>
          /\ exitCode = <<0>>
          /\ stderr = <<>>
          /\ artifact.written
          /\ artifact.sheet = "Jobs"
          /\ artifact.header = <<"Title", "Company", "Location", "Experience", "Link">>
          /\ Len(artifact.data) = Len(jobs)
          /\ \A i \in 1..Len(jobs) :
                artifact.data[i] = <<jobs[i].Title, jobs[i].Company, jobs[i].Location,
                                     jobs[i].Experience, jobs[i].Link>>

\* main has exported an entirely empty document: header only, status 0.
C7_Witness ==
    /\ pc = "done"
    /\ inputExists
    /\ doc = <<>>
    /\ jobs = <<>>
    /\ artifact.written
    /\ artifact.data = <<>>
    /\ exitCode = <<0>>

-----------------------------------------------------------------------------
(* Property of find_job_containers, checked under SpecContainers.          *)

\* An element of a container tag with a class token that contains a hint,
\* whatever the case, and with a hyperlink below it.
IsJobContainer(d, i) ==
    /\ d[i].tag \in {"article", "li", "div", "section"}
    /\ \E k \in 1..Len(d[i].cls) :
          \E h \in {"job", "listing", "result", "card", "opening", "vacancy", "position"} :
              Contains(h, Lower(d[i].cls[k]))
    /\ \E a \in Desc(d, i) : d[a].tag = "a"

TagRank(t) == CHOOSE k \in 1..Len(ContainerTags) : ContainerTags[k] = t

\* C10: find_job_containers returns exactly the article, li, div and section
\* elements with a hinting class token and a hyperlink descendant, each once,
\* the article matches first, then li, div and section, each in document order.
C10_ContainersExact ==
    pc = "located" =>
        /\ Range(containers) = {i \in 1..Len(doc) : IsJobContainer(doc, i)}
        /\ \A p, q \in 1..Len(containers) :
              p < q =>
                 \/ TagRank(doc[containers[p]].tag) < TagRank(doc[containers[q]].tag)
                 \/ /\ doc[containers[p]].tag = doc[containers[q]].tag
                    /\ containers[p] < containers[q]

\* Two containers, matched through class tokens written in mixed case, were
\* returned in an order that is not the document order.
C10_Witness ==
    /\ pc = "located"
    /\ \E p, q \in 1..Len(containers) :
          /\ p < q
          /\ containers[p] > containers[q]
          /\ doc[containers[p]].cls = <<"JobCard">>

-----------------------------------------------------------------------------
(* Properties of choose_title, checked under SpecTitle.                    *)

\* Some hyperlink of the container satisfies title rule 1.
Rule1Applies(d, n) ==
    \E a \in Desc(d, n) :
        /\ d[a].tag = "a" /\ d[a].hasHref
        /\ IsTitleHref(Lower(d[a].href))
        /\ Len(extract_visible_text(d, a)) >= 5

HeadingsOf(d, n, h) == {i \in Desc(d, n) : d[i].tag = Headings[h]}

LongHeadingsOf(d, n, h) ==
    {i \in HeadingsOf(d, n, h) : Len(extract_visible_text(d, i)) >= 5}

\* The levels whose first heading has a text of at least 5 characters.
LevelsWithLongFirst(d, n) ==
    {h \in 1..4 : HeadingsOf(d, n, h) # {} /\ Min(HeadingsOf(d, n, h)) \in LongHeadingsOf(d, n, h)}

\* C9 as claimed: without a rule 1 hyperlink, choose_title returns the first
\* heading with a text of at least 5 characters of the first level h1..h4 that
\* has one, be it a later heading of that level.
C9_AnyHeadingOfLevel ==
    (pc = "chosen" /\ ~Rule1Applies(doc, container)
       /\ \E h \in 1..4 : LongHeadingsOf(doc, container, h) # {}) =>
        LET h == Min({x \in 1..4 : LongHeadingsOf(doc, container, x) # {}})
        IN title = Min(LongHeadingsOf(doc, container, h))

\* C9 amended: without a rule 1 hyperlink, choose_title looks, for the levels
\* h1..h4 in order, at the first heading of the level only: it returns the
\* first heading of the first level whose first heading has a text of at least
\* 5 characters; when no level has such a first heading it returns no heading
\* (an anchor by rule 3, or nothing), whatever the later headings are.
C9_FirstHeadingOfLevel ==
    (pc = "chosen" /\ ~Rule1Applies(doc, container)) =>
        LET levels == LevelsWithLongFirst(doc, container)
        IN /\ levels # {} => title = Min(HeadingsOf(doc, container, Min(levels)))
           /\ levels = {} => title = NoNode \/ doc[title].tag = "a"

\* The first heading of a level is short, a later one of the same level is
\* long, and the title returned is not that later heading.
C9_Witness ==
    /\ pc = "chosen"
    /\ ~Rule1Applies(doc, container)
    /\ \E h \in 1..4 :
          /\ LongHeadingsOf(doc, container, h) # {}
          /\ Min(HeadingsOf(doc, container, h)) \notin LongHeadingsOf(doc, container, h)
          /\ title \notin HeadingsOf(doc, container, h)

-----------------------------------------------------------------------------
(* Properties of choose_location, checked under SpecLocation.              *)

\* No descendant with a location class has a text of two characters or more:
\* the extractor is in its second stage.
SecondStage(d, n) ==
    \A el \in Desc(d, n) :
        (IsTag(d, el) /\ has_class_like(d, el, <<"location", "loc", "city", "place">>))
            => Len(extract_visible_text(d, el)) < 2

\* The places of the text where "Location" or "City" starts at a word boundary.
KeywordPlaces(s) == {p \in 1..Len(s) : LocationKeywordAt(s, p) > 0 /\ WordStart(s, p)}

\* The first character after the keyword at p and the whitespace behind it.
AfterKeyword(s, p) == SkipWs(s, p + LocationKeywordAt(s, p))

\* The run of characters other than "|" and newline that starts at g, trimmed.
ValueAt(s, g) == Strip(Sub(s, g, SkipValue(s, g) - 1))

ContainerText == extract_visible_text(doc, container)

\* C8 as claimed: in the second stage the separator is optional; when the first
\* keyword of the text is followed directly by a value, with no ":", "-" or
\* "|", the run that starts there is returned, trimmed.
C8_SeparatorOptional ==
    (pc = "chosen" /\ SecondStage(doc, container) /\ KeywordPlaces(ContainerText) # {}) =>
        LET g == AfterKeyword(ContainerText, Min(KeywordPlaces(ContainerText)))
        IN (g <= Len(ContainerText) /\ At(ContainerText, g) \notin {":", "-", "|", "\n"})
              => location = ValueAt(ContainerText, g)

\* C8 amended: in the second stage the separator is required.  When no keyword
\* of the text is followed (after optional whitespace) by ":", "-" or "|", as
\* in "Location Mumbai", nothing is returned; when the first keyword that is
\* followed by a separator has a value behind the separator, that run is
\* returned, trimmed.
C8_SeparatorRequired ==
    (pc = "chosen" /\ SecondStage(doc, container)) =>
        LET s == ContainerText
            withSep == {p \in KeywordPlaces(s) : At(s, AfterKeyword(s, p)) \in {":", "-", "|"}}
            g == SkipWs(s, AfterKeyword(s, Min(withSep)) + 1)
        IN /\ withSep = {} => location = NoneStr
           /\ (withSep # {} /\ g <= Len(s) /\ At(s, g) # "|") => location = ValueAt(s, g)

\* The text of the container has a keyword followed directly by a value, no
\* keyword followed by a separator, and no location was returned.
C8_Witness ==
    /\ pc = "chosen"
    /\ SecondStage(doc, container)
    /\ \E p \in KeywordPlaces(ContainerText) :
          /\ AfterKeyword(ContainerText, p) <= Len(ContainerText)
          /\ At(ContainerText, AfterKeyword(ContainerText, p)) \notin {":", "-", "|"}
    /\ \A p \in KeywordPlaces(ContainerText) :
          At(ContainerText, AfterKeyword(ContainerText, p)) \notin {":", "-", "|"}
    /\ location = NoneStr

-----------------------------------------------------------------------------
(* Property of absolutize, checked under SpecAbsolutize.                   *)

\* C4: absolutize returns the empty string and every URL that starts with
\* "http://" or "https://" unchanged, and applying it to its own result
\* changes nothing.
C4_AbsolutizeIdempotent ==
    /\ (calls >= 1 /\ (url = "" \/ StartsWith(url, "http://") \/ StartsWith(url, "https://")))
          => absolute = url
    /\ calls = 2 => absolute = absolutize(url)

\* A relative URL was made absolute and the second call left it as it was.
C4_Witness ==
    /\ calls = 2
    /\ absolute # url
    /\ url # ""

-----------------------------------------------------------------------------
(* Properties of dedupe_jobs, checked under SpecDedupe.                    *)

\* The key of the claim: the Title and the Link, trimmed and lowercased.
IdentityKey(r) == <<Lower(Strip(r.Title)), Lower(Strip(r.Link))>>

\* The places of the rows that no earlier row shares its key with.
FirstPlaces(rs) ==
    {i \in 1..Len(rs) : \A j \in 1..(i - 1) : IdentityKey(rs[j]) # IdentityKey(rs[i])}

\* C2: dedupe_jobs returns the subsequence made of the first row of each
\* distinct key, in the original order, each row with its fields unchanged,
\* whatever the Company, Location and Experience of the later rows of the key.
C2_FirstOccurrences ==
    calls = 1 =>
        /\ Len(unique_rows) = Cardinality(FirstPlaces(rows))
        /\ \A k \in 1..Len(unique_rows) : unique_rows[k] = rows[InOrder(FirstPlaces(rows))[k]]

\* Two rows with one key and two companies went in, the first one came out.
C2_Witness ==
    /\ calls = 1
    /\ \E i, j \in 1..Len(rows) :
          /\ i < j
          /\ IdentityKey(rows[i]) = IdentityKey(rows[j])
          /\ rows[i].Company # rows[j].Company
          /\ i \in FirstPlaces(rows)
          /\ \E k \in 1..Len(unique_rows) : unique_rows[k] = rows[i]
    /\ Len(unique_rows) < Len(rows)

\* C5: dedupe_jobs applied to its own output returns that output, the same
\* rows in the same order.
C5_DedupeIdempotent ==
    calls = 2 => unique_rows = dedupe_jobs(rows)

\* The first call dropped a row and the second call has returned.
C5_Witness ==
    /\ calls = 2
    /\ unique_rows # <<>>
    /\ Len(unique_rows) < Len(rows)

====
